---- MODULE Spec2Model ----
(***************************************************************************)
(* Model of the ledger engine of rust-coding-test: the account store       *)
(* (account_store.rs), the disputable-transaction store                    *)
(* (transaction_store.rs) and the handler that routes every input to them  *)
(* (transaction_handler.rs).                                               *)
(*                                                                         *)
(* Amounts are rust_decimal values in the code; the model uses integers,   *)
(* which have the same exact +, -, unary minus, min and comparison.  The   *)
(* sign test is_sign_negative is "< 0" (the decimal's negative zero is not *)
(* represented).                                                           *)
(***************************************************************************)
EXTENDS Integers, FiniteSets, Sequences, TLC

\* ---------------------------------------------------------------- bounds
NumClients == 2
NumTransactions == 2
MaxAmount == 2
MaxNegAmount == 1
MaxInputs == 5

\* ----------------------------------------------------------------- types
ClientId == 1..NumClients
TransactionId == 1..NumTransactions
Amount == (0 - MaxNegAmount)..MaxAmount

ZERO == 0

is_sign_negative(a) == a < 0

min(a, b) == IF b < a THEN b ELSE a

MonetaryTransactionRecord == [client : ClientId, transaction : TransactionId, amount : Amount]

DisputedTransactionRecord == [client : ClientId, transaction : TransactionId]

\* DisputeState
NotDisputed == "NotDisputed"
Disputed == "Disputed"
ChargebackOcurred == "ChargebackOcurred"

\* UndisputeOutcome
Resolve == "Resolve"
Chargeback == "Chargeback"

\* ------------------------------------------------------- Result<..> values
Ok == "Ok"

ErrLocked == "Cannot change balance of locked account"
ErrNegativeBalance == "Transaction would cause negative balance"
ErrNegativeCreation == "Account creation would start with negative balance"
ErrHoldNegative == "Cannot hold negative amount"
ErrReleaseNegative == "Cannot release negative amount"
ErrChargeNegative == "Cannot charge back negative amount"
ErrNoClient == "Client does not exist"

ErrPresent == "Transaction already present"
ErrDisputeClient == "Mismatching client for dispute"
ErrAlreadyDisputed == "Transaction already disputed"
ErrDisputeNotFound == "Transaction not found for dispute"
ErrUndisputeClient == "Mismatching client for undispute"
ErrNotDisputed == "Transaction not yet disputed"
ErrUndisputeNotFound == "Transaction not found for undispute"

ErrParse == "parse failure"

AccountStoreErrors ==
    {ErrLocked, ErrNegativeBalance, ErrNegativeCreation, ErrHoldNegative,
     ErrReleaseNegative, ErrChargeNegative, ErrNoClient}

TransactionStoreErrors ==
    {ErrPresent, ErrDisputeClient, ErrAlreadyDisputed, ErrDisputeNotFound,
     ErrUndisputeClient, ErrNotDisputed, ErrUndisputeNotFound}

\* ------------------------------------------------- HashMapAccountStore
\* Every operation takes the map and returns the map as the call leaves it
\* together with the Result of the call.

\* Mutation: the balance of an existing account is changed without the
\* test for a negative result.
add_to_balance_unchecked(data_store, client, amount) ==
    IF client \in DOMAIN data_store
    THEN LET data == data_store[client] IN
         IF data.locked
         THEN [result |-> ErrLocked, data_store |-> data_store]
         ELSE [result |-> Ok,
               data_store |-> [data_store EXCEPT ![client].available = data.available + amount]]
    ELSE IF is_sign_negative(amount)
         THEN [result |-> ErrNegativeCreation, data_store |-> data_store]
         ELSE [result |-> Ok,
               data_store |-> (client :> [available |-> amount, held |-> ZERO, locked |-> FALSE])
                              @@ data_store]

\* Mutation: the balance of a locked account is changed like any other.
add_to_balance_ignore_locked(data_store, client, amount) ==
    IF client \in DOMAIN data_store
    THEN LET data == data_store[client]
             new_amount == data.available + amount IN
         IF is_sign_negative(new_amount)
         THEN [result |-> ErrNegativeBalance, data_store |-> data_store]
         ELSE [result |-> Ok,
               data_store |-> [data_store EXCEPT ![client].available = new_amount]]
    ELSE IF is_sign_negative(amount)
         THEN [result |-> ErrNegativeCreation, data_store |-> data_store]
         ELSE [result |-> Ok,
               data_store |-> (client :> [available |-> amount, held |-> ZERO, locked |-> FALSE])
                              @@ data_store]

\* Mutation: the test for a negative result looks at the total funds
\* (available + held) instead of the available funds.
add_to_balance_total(data_store, client, amount) ==
    IF client \in DOMAIN data_store
    THEN LET data == data_store[client] IN
         IF data.locked
         THEN [result |-> ErrLocked, data_store |-> data_store]
         ELSE LET new_amount == data.available + amount IN
              IF is_sign_negative(new_amount + data.held)
              THEN [result |-> ErrNegativeBalance, data_store |-> data_store]
              ELSE IF is_sign_negative(new_amount)
              THEN [result |-> Ok,
                    data_store |-> [data_store EXCEPT
                        ![client].available = ZERO,
                        ![client].held = data.held + new_amount]]
              ELSE [result |-> Ok,
                    data_store |-> [data_store EXCEPT ![client].available = new_amount]]
    ELSE IF is_sign_negative(amount)
         THEN [result |-> ErrNegativeCreation, data_store |-> data_store]
         ELSE [result |-> Ok,
               data_store |-> (client :> [available |-> amount, held |-> ZERO, locked |-> FALSE])
                              @@ data_store]

add_to_balance(data_store, client, amount) ==
    IF client \in DOMAIN data_store
    THEN LET data == data_store[client] IN
         IF data.locked
         THEN [result |-> ErrLocked, data_store |-> data_store]
         ELSE LET new_amount == data.available + amount IN
              IF is_sign_negative(new_amount)
              THEN [result |-> ErrNegativeBalance, data_store |-> data_store]
              ELSE [result |-> Ok,
                    data_store |-> [data_store EXCEPT ![client].available = new_amount]]
    ELSE IF is_sign_negative(amount)
         THEN [result |-> ErrNegativeCreation, data_store |-> data_store]
         ELSE [result |-> Ok,
               data_store |-> (client :> [available |-> amount, held |-> ZERO, locked |-> FALSE])
                              @@ data_store]

\* Mutation: a hold clears the locked flag of the account.
hold_amount_unlocks(data_store, client, amount) ==
    IF is_sign_negative(amount)
    THEN [result |-> ErrHoldNegative, data_store |-> data_store]
    ELSE IF client \in DOMAIN data_store
         THEN LET data == data_store[client]
                  amount_to_be_held == min(data.available, amount)
              IN [result |-> Ok,
                  data_store |-> [data_store EXCEPT
                      ![client].available = data.available - amount_to_be_held,
                      ![client].held = data.held + amount_to_be_held,
                      ![client].locked = FALSE]]
         ELSE [result |-> ErrNoClient, data_store |-> data_store]

\* Mutation: the whole amount is held, without the clamp to the available
\* funds.
hold_amount_unclamped(data_store, client, amount) ==
    IF is_sign_negative(amount)
    THEN [result |-> ErrHoldNegative, data_store |-> data_store]
    ELSE IF client \in DOMAIN data_store
         THEN LET data == data_store[client] IN
              [result |-> Ok,
               data_store |-> [data_store EXCEPT
                   ![client].available = data.available - amount,
                   ![client].held = data.held + amount]]
         ELSE [result |-> ErrNoClient, data_store |-> data_store]

hold_amount(data_store, client, amount) ==
    IF is_sign_negative(amount)
    THEN [result |-> ErrHoldNegative, data_store |-> data_store]
    ELSE IF client \in DOMAIN data_store
         THEN LET data == data_store[client]
                  amount_to_be_held == min(data.available, amount)
              IN [result |-> Ok,
                  data_store |-> [data_store EXCEPT
                      ![client].available = data.available - amount_to_be_held,
                      ![client].held = data.held + amount_to_be_held]]
         ELSE [result |-> ErrNoClient, data_store |-> data_store]

\* Mutation: the released amount leaves the held funds and is not added
\* to the available funds.
release_held_amount_dropped(data_store, client, amount) ==
    IF is_sign_negative(amount)
    THEN [result |-> ErrReleaseNegative, data_store |-> data_store]
    ELSE IF client \in DOMAIN data_store
         THEN LET data == data_store[client]
                  amount_to_be_released == min(data.held, amount)
              IN [result |-> Ok,
                  data_store |-> [data_store EXCEPT
                      ![client].held = data.held - amount_to_be_released]]
         ELSE [result |-> ErrNoClient, data_store |-> data_store]

\* Mutation: the whole amount is released, without the clamp to the held
\* funds.
release_held_amount_unclamped(data_store, client, amount) ==
    IF is_sign_negative(amount)
    THEN [result |-> ErrReleaseNegative, data_store |-> data_store]
    ELSE IF client \in DOMAIN data_store
         THEN LET data == data_store[client] IN
              [result |-> Ok,
               data_store |-> [data_store EXCEPT
                   ![client].available = data.available + amount,
                   ![client].held = data.held - amount]]
         ELSE [result |-> ErrNoClient, data_store |-> data_store]

\* Mutation: the sign of the amount is not tested.
release_held_amount_unsigned(data_store, client, amount) ==
    IF client \in DOMAIN data_store
    THEN LET data == data_store[client]
             amount_to_be_released == min(data.held, amount)
         IN [result |-> Ok,
             data_store |-> [data_store EXCEPT
                 ![client].available = data.available + amount_to_be_released,
                 ![client].held = data.held - amount_to_be_released]]
    ELSE [result |-> ErrNoClient, data_store |-> data_store]

release_held_amount(data_store, client, amount) ==
    IF is_sign_negative(amount)
    THEN [result |-> ErrReleaseNegative, data_store |-> data_store]
    ELSE IF client \in DOMAIN data_store
         THEN LET data == data_store[client]
                  amount_to_be_released == min(data.held, amount)
              IN [result |-> Ok,
                  data_store |-> [data_store EXCEPT
                      ![client].available = data.available + amount_to_be_released,
                      ![client].held = data.held - amount_to_be_released]]
         ELSE [result |-> ErrNoClient, data_store |-> data_store]

\* Mutation: the account is locked only when the whole amount could be
\* taken from the held funds.
charge_back_amount_lock_if_covered(data_store, client, amount) ==
    IF is_sign_negative(amount)
    THEN [result |-> ErrChargeNegative, data_store |-> data_store]
    ELSE IF client \in DOMAIN data_store
         THEN LET data == data_store[client]
                  amount_to_be_charged == min(data.held, amount)
              IN [result |-> Ok,
                  data_store |-> [data_store EXCEPT
                      ![client].held = data.held - amount_to_be_charged,
                      ![client].locked = data.locked \/ amount_to_be_charged = amount]]
         ELSE [result |-> ErrNoClient, data_store |-> data_store]

charge_back_amount(data_store, client, amount) ==
    IF is_sign_negative(amount)
    THEN [result |-> ErrChargeNegative, data_store |-> data_store]
    ELSE IF client \in DOMAIN data_store
         THEN LET data == data_store[client]
                  amount_to_be_charged == min(data.held, amount)
              IN [result |-> Ok,
                  data_store |-> [data_store EXCEPT
                      ![client].held = data.held - amount_to_be_charged,
                      ![client].locked = TRUE]]
         ELSE [result |-> ErrNoClient, data_store |-> data_store]

\* --------------------------------------------- HashMapTransactionStore
\* dispute_transaction and undispute_transaction also return the stored
\* deposit (value) when they succeed.

NoValue == [client |-> 0, transaction |-> 0, amount |-> ZERO]

\* Mutation: the insert without the contains_key test, which replaces a
\* record that is already present.
add_transaction_overwrite(data_store, record) ==
    [result |-> Ok,
     data_store |-> (record.transaction :>
                        [client |-> record.client,
                         amount |-> record.amount,
                         state |-> NotDisputed]) @@ data_store]

add_transaction(data_store, record) ==
    IF record.transaction \in DOMAIN data_store
    THEN [result |-> ErrPresent, data_store |-> data_store]
    ELSE [result |-> Ok,
          data_store |-> (record.transaction :>
                             [client |-> record.client,
                              amount |-> record.amount,
                              state |-> NotDisputed]) @@ data_store]

\* Mutation: the record is marked Disputed before its state is tested.
dispute_transaction_mark_first(data_store, transaction) ==
    IF transaction.transaction \in DOMAIN data_store
    THEN LET data == data_store[transaction.transaction]
             marked == [data_store EXCEPT ![transaction.transaction].state = Disputed]
         IN
         IF data.client # transaction.client
         THEN [result |-> ErrDisputeClient, data_store |-> data_store, value |-> NoValue]
         ELSE IF data.state # NotDisputed
         THEN [result |-> ErrAlreadyDisputed, data_store |-> marked, value |-> NoValue]
         ELSE [result |-> Ok,
               data_store |-> marked,
               value |-> [client |-> data.client,
                          transaction |-> transaction.transaction,
                          amount |-> data.amount]]
    ELSE [result |-> ErrDisputeNotFound, data_store |-> data_store, value |-> NoValue]

\* Mutation: only a pending dispute is refused, so a charged-back record can
\* be disputed again.
dispute_transaction_redispute(data_store, transaction) ==
    IF transaction.transaction \in DOMAIN data_store
    THEN LET data == data_store[transaction.transaction] IN
         IF data.client # transaction.client
         THEN [result |-> ErrDisputeClient, data_store |-> data_store, value |-> NoValue]
         ELSE IF data.state = Disputed
         THEN [result |-> ErrAlreadyDisputed, data_store |-> data_store, value |-> NoValue]
         ELSE [result |-> Ok,
               data_store |-> [data_store EXCEPT ![transaction.transaction].state = Disputed],
               value |-> [client |-> data.client,
                          transaction |-> transaction.transaction,
                          amount |-> data.amount]]
    ELSE [result |-> ErrDisputeNotFound, data_store |-> data_store, value |-> NoValue]

\* Mutation: the client of the request is not compared with the client of
\* the record.
dispute_transaction_any_client(data_store, transaction) ==
    IF transaction.transaction \in DOMAIN data_store
    THEN LET data == data_store[transaction.transaction] IN
         IF data.state # NotDisputed
         THEN [result |-> ErrAlreadyDisputed, data_store |-> data_store, value |-> NoValue]
         ELSE [result |-> Ok,
               data_store |-> [data_store EXCEPT ![transaction.transaction].state = Disputed],
               value |-> [client |-> data.client,
                          transaction |-> transaction.transaction,
                          amount |-> data.amount]]
    ELSE [result |-> ErrDisputeNotFound, data_store |-> data_store, value |-> NoValue]

\* Mutation: the state of the record is not tested, so a record can be
\* disputed while it is Disputed or ChargebackOcurred.
dispute_transaction_any_state(data_store, transaction) ==
    IF transaction.transaction \in DOMAIN data_store
    THEN LET data == data_store[transaction.transaction] IN
         IF data.client # transaction.client
         THEN [result |-> ErrDisputeClient, data_store |-> data_store, value |-> NoValue]
         ELSE [result |-> Ok,
               data_store |-> [data_store EXCEPT ![transaction.transaction].state = Disputed],
               value |-> [client |-> data.client,
                          transaction |-> transaction.transaction,
                          amount |-> data.amount]]
    ELSE [result |-> ErrDisputeNotFound, data_store |-> data_store, value |-> NoValue]

dispute_transaction(data_store, transaction) ==
    IF transaction.transaction \in DOMAIN data_store
    THEN LET data == data_store[transaction.transaction] IN
         IF data.client # transaction.client
         THEN [result |-> ErrDisputeClient, data_store |-> data_store, value |-> NoValue]
         ELSE IF data.state # NotDisputed
         THEN [result |-> ErrAlreadyDisputed, data_store |-> data_store, value |-> NoValue]
         ELSE [result |-> Ok,
               data_store |-> [data_store EXCEPT ![transaction.transaction].state = Disputed],
               value |-> [client |-> data.client,
                          transaction |-> transaction.transaction,
                          amount |-> data.amount]]
    ELSE [result |-> ErrDisputeNotFound, data_store |-> data_store, value |-> NoValue]

\* Mutation: the record's state is not tested before the outcome is
\* applied.
undispute_transaction_any_state(data_store, transaction, outcome) ==
    IF transaction.transaction \in DOMAIN data_store
    THEN LET data == data_store[transaction.transaction] IN
         IF data.client # transaction.client
         THEN [result |-> ErrUndisputeClient, data_store |-> data_store, value |-> NoValue]
         ELSE [result |-> Ok,
               data_store |-> [data_store EXCEPT ![transaction.transaction].state =
                                  IF outcome = Resolve THEN NotDisputed ELSE ChargebackOcurred],
               value |-> [client |-> data.client,
                          transaction |-> transaction.transaction,
                          amount |-> data.amount]]
    ELSE [result |-> ErrUndisputeNotFound, data_store |-> data_store, value |-> NoValue]

\* Mutation: the outcome is not looked at and every undispute ends in
\* ChargebackOcurred.
undispute_transaction_always_chargeback(data_store, transaction, outcome) ==
    IF transaction.transaction \in DOMAIN data_store
    THEN LET data == data_store[transaction.transaction] IN
         IF data.client # transaction.client
         THEN [result |-> ErrUndisputeClient, data_store |-> data_store, value |-> NoValue]
         ELSE IF data.state # Disputed
         THEN [result |-> ErrNotDisputed, data_store |-> data_store, value |-> NoValue]
         ELSE [result |-> Ok,
               data_store |-> [data_store EXCEPT
                                  ![transaction.transaction].state = ChargebackOcurred],
               value |-> [client |-> data.client,
                          transaction |-> transaction.transaction,
                          amount |-> data.amount]]
    ELSE [result |-> ErrUndisputeNotFound, data_store |-> data_store, value |-> NoValue]

undispute_transaction(data_store, transaction, outcome) ==
    IF transaction.transaction \in DOMAIN data_store
    THEN LET data == data_store[transaction.transaction] IN
         IF data.client # transaction.client
         THEN [result |-> ErrUndisputeClient, data_store |-> data_store, value |-> NoValue]
         ELSE IF data.state # Disputed
         THEN [result |-> ErrNotDisputed, data_store |-> data_store, value |-> NoValue]
         ELSE [result |-> Ok,
               data_store |-> [data_store EXCEPT ![transaction.transaction].state =
                                  IF outcome = Resolve THEN NotDisputed ELSE ChargebackOcurred],
               value |-> [client |-> data.client,
                          transaction |-> transaction.transaction,
                          amount |-> data.amount]]
    ELSE [result |-> ErrUndisputeNotFound, data_store |-> data_store, value |-> NoValue]

\* --------------------------------------------------- TransactionHandler
\* self is the pair of stores; a handler returns the stores as it leaves
\* them and its Result.

handle_deposit(self, record) ==
    LET transaction_result == add_transaction(self.transaction_store, record) IN
    IF transaction_result.result # Ok
    THEN [account_store |-> self.account_store,
          transaction_store |-> transaction_result.data_store,
          result |-> transaction_result.result]
    ELSE LET r == add_to_balance(self.account_store, record.client, record.amount) IN
         [account_store |-> r.data_store,
          transaction_store |-> transaction_result.data_store,
          result |-> r.result]

\* Mutation: the withdrawal is recorded in the transaction store like a
\* deposit before the balance is changed.
handle_withdrawal_recorded(self, record) ==
    LET transaction_result == add_transaction(self.transaction_store, record) IN
    IF transaction_result.result # Ok
    THEN [account_store |-> self.account_store,
          transaction_store |-> transaction_result.data_store,
          result |-> transaction_result.result]
    ELSE LET r == add_to_balance(self.account_store, record.client, 0 - record.amount) IN
         [account_store |-> r.data_store,
          transaction_store |-> transaction_result.data_store,
          result |-> r.result]

handle_withdrawal(self, record) ==
    LET r == add_to_balance(self.account_store, record.client, 0 - record.amount) IN
    [account_store |-> r.data_store,
     transaction_store |-> self.transaction_store,
     result |-> r.result]

handle_dispute(self, record) ==
    LET transaction_result == dispute_transaction(self.transaction_store, record) IN
    IF transaction_result.result # Ok
    THEN [account_store |-> self.account_store,
          transaction_store |-> transaction_result.data_store,
          result |-> transaction_result.result]
    ELSE LET data == transaction_result.value
             r == hold_amount(self.account_store, data.client, data.amount)
         IN [account_store |-> r.data_store,
             transaction_store |-> transaction_result.data_store,
             result |-> r.result]

handle_resolve(self, record) ==
    LET transaction_result == undispute_transaction(self.transaction_store, record, Resolve) IN
    IF transaction_result.result # Ok
    THEN [account_store |-> self.account_store,
          transaction_store |-> transaction_result.data_store,
          result |-> transaction_result.result]
    ELSE LET data == transaction_result.value
             r == release_held_amount(self.account_store, data.client, data.amount)
         IN [account_store |-> r.data_store,
             transaction_store |-> transaction_result.data_store,
             result |-> r.result]

handle_chargeback(self, record) ==
    LET transaction_result == undispute_transaction(self.transaction_store, record, Chargeback) IN
    IF transaction_result.result # Ok
    THEN [account_store |-> self.account_store,
          transaction_store |-> transaction_result.data_store,
          result |-> transaction_result.result]
    ELSE LET data == transaction_result.value
             r == charge_back_amount(self.account_store, data.client, data.amount)
         IN [account_store |-> r.data_store,
             transaction_store |-> transaction_result.data_store,
             result |-> r.result]

\* ------------------------------------------------------------------ state
\* HashMapAccountStore.data_store
VARIABLE account_store
\* HashMapTransactionStore.data_store
VARIABLE transaction_store
\* the input taken by the last loop iteration
VARIABLE transaction
\* the Result of handling it
VARIABLE result
\* account_store when that iteration began
VARIABLE old_account_store
\* transaction_store when that iteration began
VARIABLE old_transaction_store
\* number of inputs consumed so far
VARIABLE processed
\* the input sequence given to handle_transactions, when it is fixed in
\* advance (SpecRun); empty when every item is chosen as it is taken
VARIABLE transactions
\* the transaction ids named by the Withdrawal inputs handled so far, when
\* they are logged (SpecIds)
VARIABLE withdrawal_ids

vars == <<account_store, transaction_store, transaction, result,
          old_account_store, old_transaction_store, processed,
          transactions, withdrawal_ids>>

EmptyMap == <<>>

NoTransaction == [kind |-> "None"]

\* TransactionHandler::new
Init ==
    /\ account_store = EmptyMap
    /\ transaction_store = EmptyMap
    /\ transaction = NoTransaction
    /\ result = Ok
    /\ old_account_store = EmptyMap
    /\ old_transaction_store = EmptyMap
    /\ processed = 0
    /\ transactions = <<>>
    /\ withdrawal_ids = {}

Self == [account_store |-> account_store, transaction_store |-> transaction_store]

\* Mutation: the loop is left at the first Err instead of going on.
log_and_return(r) == r = Ok

\* The end of the loop body: an Err is logged and the loop goes on with
\* the next item, whatever the result was.
log_and_continue(r) == TRUE

\* One iteration of the loop of handle_transactions: input is the item,
\* out what its handler returned.
Iteration(input, out) ==
    /\ processed < MaxInputs
    /\ log_and_continue(result)
    /\ UNCHANGED transactions
    /\ processed' = processed + 1
    /\ transaction' = input
    /\ old_account_store' = account_store
    /\ old_transaction_store' = transaction_store
    /\ account_store' = out.account_store
    /\ transaction_store' = out.transaction_store
    /\ result' = out.result

Deposit ==
    \E record \in MonetaryTransactionRecord :
        /\ Iteration([kind |-> "Deposit", record |-> record], handle_deposit(Self, record))
        /\ UNCHANGED withdrawal_ids

Withdrawal ==
    \E record \in MonetaryTransactionRecord :
        /\ Iteration([kind |-> "Withdrawal", record |-> record], handle_withdrawal(Self, record))
        /\ UNCHANGED withdrawal_ids

Dispute ==
    \E record \in DisputedTransactionRecord :
        /\ Iteration([kind |-> "Dispute", record |-> record], handle_dispute(Self, record))
        /\ UNCHANGED withdrawal_ids

ResolveTx ==
    \E record \in DisputedTransactionRecord :
        /\ Iteration([kind |-> "Resolve", record |-> record], handle_resolve(Self, record))
        /\ UNCHANGED withdrawal_ids

ChargebackTx ==
    \E record \in DisputedTransactionRecord :
        /\ Iteration([kind |-> "Chargeback", record |-> record], handle_chargeback(Self, record))
        /\ UNCHANGED withdrawal_ids

\* An Err item of the input iterator: and_then skips the handlers.
ParseFailure ==
    /\ Iteration([kind |-> "ParseFailure"],
                 [account_store |-> account_store,
                  transaction_store |-> transaction_store,
                  result |-> ErrParse])
    /\ UNCHANGED withdrawal_ids

Next ==
    \/ Deposit
    \/ Withdrawal
    \/ Dispute
    \/ ResolveTx
    \/ ChargebackTx
    \/ ParseFailure

Spec == Init /\ [][Next]_vars

\* ---------------------------------------------- logging withdrawal ids
\* The same loop, with the id of every Withdrawal input written down.
WithdrawalLogged ==
    \E record \in MonetaryTransactionRecord :
        /\ Iteration([kind |-> "Withdrawal", record |-> record], handle_withdrawal(Self, record))
        /\ withdrawal_ids' = withdrawal_ids \cup {record.transaction}

NextIds ==
    \/ Deposit
    \/ WithdrawalLogged
    \/ Dispute
    \/ ResolveTx
    \/ ChargebackTx
    \/ ParseFailure

SpecIds == Init /\ [][NextIds]_vars

\* ------------------------------------------- a run over a given sequence
MaxRunLen == 3

\* The items the input iterator can yield: a parsed Transaction or an Err.
TransactionItems ==
    {[kind |-> "Deposit", record |-> r] : r \in MonetaryTransactionRecord}
    \cup {[kind |-> "Withdrawal", record |-> r] : r \in MonetaryTransactionRecord}
    \cup {[kind |-> "Dispute", record |-> r] : r \in DisputedTransactionRecord}
    \cup {[kind |-> "Resolve", record |-> r] : r \in DisputedTransactionRecord}
    \cup {[kind |-> "Chargeback", record |-> r] : r \in DisputedTransactionRecord}
    \cup {[kind |-> "ParseFailure"]}

Runs == UNION {[1..n -> TransactionItems] : n \in 0..MaxRunLen}

\* Mutation: an Err item of the iterator empties the Account Store.
handle_err_resets(self, item) ==
    CASE item.kind = "Deposit" -> handle_deposit(self, item.record)
      [] item.kind = "Withdrawal" -> handle_withdrawal(self, item.record)
      [] item.kind = "Dispute" -> handle_dispute(self, item.record)
      [] item.kind = "Resolve" -> handle_resolve(self, item.record)
      [] item.kind = "Chargeback" -> handle_chargeback(self, item.record)
      [] OTHER -> [account_store |-> EmptyMap,
                   transaction_store |-> self.transaction_store,
                   result |-> ErrParse]

\* The body of the loop: the match of handle_transactions on one item.
handle(self, item) ==
    CASE item.kind = "Deposit" -> handle_deposit(self, item.record)
      [] item.kind = "Withdrawal" -> handle_withdrawal(self, item.record)
      [] item.kind = "Dispute" -> handle_dispute(self, item.record)
      [] item.kind = "Resolve" -> handle_resolve(self, item.record)
      [] item.kind = "Chargeback" -> handle_chargeback(self, item.record)
      [] OTHER -> [account_store |-> self.account_store,
                   transaction_store |-> self.transaction_store,
                   result |-> ErrParse]

\* The stores a TransactionHandler holds.
HandlerState(out) ==
    [account_store |-> out.account_store, transaction_store |-> out.transaction_store]

\* TransactionHandler::new()
new == [account_store |-> EmptyMap, transaction_store |-> EmptyMap]

\* The whole loop of handle_transactions over the items, from the stores
\* self to the stores it leaves.
RECURSIVE handle_transactions(_, _)
handle_transactions(self, items) ==
    IF items = <<>>
    THEN self
    ELSE handle_transactions(HandlerState(handle(self, Head(items))), Tail(items))

InitRun ==
    /\ account_store = EmptyMap
    /\ transaction_store = EmptyMap
    /\ transaction = NoTransaction
    /\ result = Ok
    /\ old_account_store = EmptyMap
    /\ old_transaction_store = EmptyMap
    /\ processed = 0
    /\ transactions \in Runs
    /\ withdrawal_ids = {}

\* The loop takes the next item of the sequence and handles it.
NextRun ==
    /\ processed < Len(transactions)
    /\ Iteration(transactions[processed + 1], handle(Self, transactions[processed + 1]))
    /\ UNCHANGED withdrawal_ids

\* The loop is sequential code: while an item is left, it is taken.
SpecRun == InitRun /\ [][NextRun]_vars /\ WF_vars(NextRun)


\* ------------------------------------------------------ claim vocabulary
Kind == transaction.kind

IsDisputeKind == Kind \in {"Dispute", "Resolve", "Chargeback"}

StoresUnchanged ==
    /\ account_store = old_account_store
    /\ transaction_store = old_transaction_store

\* C1: after any prefix of any input sequence, every account has
\* available >= 0 and held >= 0.
C1_NonNegativeBalances ==
    \A c \in DOMAIN account_store :
        account_store[c].available >= 0 /\ account_store[c].held >= 0

\* A deposit of a negative amount was accepted and brought available to 0
\* while funds of the same client are held.
C1_Witness ==
    /\ Kind = "Deposit"
    /\ result = Ok
    /\ transaction.record.amount < 0
    /\ account_store[transaction.record.client].available = 0
    /\ account_store[transaction.record.client].held > 0

\* C2 (as stated): whenever the handler of an input returns an error, both
\* stores are exactly as they were before that input.
C2_NoPartialApplication ==
    result # Ok => StoresUnchanged

\* What the record-store call of the last input alone does to the record
\* store when it is accepted.
C2_RecordStoreEffect ==
    LET tx == transaction.record.transaction IN
    CASE Kind = "Deposit" ->
            (tx :> [client |-> transaction.record.client,
                    amount |-> transaction.record.amount,
                    state |-> NotDisputed]) @@ old_transaction_store
      [] Kind = "Dispute" -> [old_transaction_store EXCEPT ![tx].state = Disputed]
      [] Kind = "Resolve" -> [old_transaction_store EXCEPT ![tx].state = NotDisputed]
      [] Kind = "Chargeback" -> [old_transaction_store EXCEPT ![tx].state = ChargebackOcurred]
      [] OTHER -> old_transaction_store

\* C2 (amended): a parse failure or a record-store rejection leaves both
\* stores unchanged; an account-store rejection leaves the Account Store
\* unchanged, and the record-store mutation the same input already made
\* (the new record, the changed dispute state) is kept.
C2_RejectionEffect ==
    /\ result \in TransactionStoreErrors \cup {ErrParse} => StoresUnchanged
    /\ result \in AccountStoreErrors =>
          /\ account_store = old_account_store
          /\ transaction_store = C2_RecordStoreEffect

\* A deposit to a locked account: rejected by the account store, recorded
\* by the record store.
C2_Witness ==
    /\ Kind = "Deposit"
    /\ result = ErrLocked
    /\ transaction.record.transaction \in DOMAIN transaction_store
    /\ transaction.record.transaction \notin DOMAIN old_transaction_store
    /\ account_store = old_account_store

\* C3: once an account is locked, no later input changes its available or
\* held.
C3_LockedAccountClosed ==
    \A c \in DOMAIN old_account_store :
        old_account_store[c].locked =>
            /\ account_store[c].available = old_account_store[c].available
            /\ account_store[c].held = old_account_store[c].held

\* C4: a record is created NotDisputed by a Deposit, and its dispute state
\* changes only NotDisputed -> Disputed by a Dispute, Disputed ->
\* NotDisputed by a Resolve and Disputed -> ChargedBack by a Chargeback of
\* that id.
C4_DisputeStateMachine ==
    \A tx \in DOMAIN transaction_store :
        IF tx \notin DOMAIN old_transaction_store
        THEN /\ transaction_store[tx].state = NotDisputed
             /\ Kind = "Deposit"
             /\ transaction.record.transaction = tx
        ELSE LET s == old_transaction_store[tx].state
                 t == transaction_store[tx].state
             IN \/ s = t
                \/ /\ \/ s = NotDisputed /\ t = Disputed /\ Kind = "Dispute"
                      \/ s = Disputed /\ t = NotDisputed /\ Kind = "Resolve"
                      \/ s = Disputed /\ t = ChargebackOcurred /\ Kind = "Chargeback"
                   /\ transaction.record.transaction = tx

\* An accepted Chargeback took a record from Disputed to ChargedBack.
C4_Witness ==
    /\ Kind = "Chargeback"
    /\ transaction.record.transaction \in DOMAIN old_transaction_store
    /\ old_transaction_store[transaction.record.transaction].state = Disputed
    /\ transaction_store[transaction.record.transaction].state = ChargebackOcurred

\* C5: a record that is ChargedBack stays ChargedBack, and every Dispute,
\* Resolve or Chargeback that names it fails and changes no account.
C5_ChargedBackTerminal ==
    \A tx \in DOMAIN old_transaction_store :
        old_transaction_store[tx].state = ChargebackOcurred =>
            /\ tx \in DOMAIN transaction_store
            /\ transaction_store[tx].state = ChargebackOcurred
            /\ (IsDisputeKind /\ transaction.record.transaction = tx) =>
                  /\ result # Ok
                  /\ account_store = old_account_store

\* The owning client disputed a charged-back record again.
C5_Witness ==
    /\ Kind = "Dispute"
    /\ transaction.record.transaction \in DOMAIN old_transaction_store
    /\ LET data == old_transaction_store[transaction.record.transaction] IN
          /\ data.state = ChargebackOcurred
          /\ data.client = transaction.record.client
          /\ data.amount > 0
    /\ result = ErrAlreadyDisputed

\* The stores after Dispute(tx) immediately followed by Resolve(tx), both
\* by the owning client, from the current state.
C6_AfterDisputeResolve(tx) ==
    LET record == [client |-> transaction_store[tx].client, transaction |-> tx]
        s1 == handle_dispute(Self, record)
    IN handle_resolve([account_store |-> s1.account_store,
                       transaction_store |-> s1.transaction_store], record)

\* C6: for any reachable state and any recorded NotDisputed deposit tx,
\* Dispute(tx) then Resolve(tx) by the owning client leaves the client's
\* available and held as they were before the Dispute.
C6_DisputeResolveRestores ==
    \A tx \in DOMAIN transaction_store :
        transaction_store[tx].state = NotDisputed =>
            LET c == transaction_store[tx].client
                after == C6_AfterDisputeResolve(tx).account_store
            IN c \in DOMAIN account_store =>
                  /\ after[c].available = account_store[c].available
                  /\ after[c].held = account_store[c].held

\* C7: a Dispute, Resolve or Chargeback whose client differs from the
\* client of the recorded deposit fails and leaves both stores unchanged.
C7_ClientMismatchRejected ==
    (/\ IsDisputeKind
     /\ transaction.record.transaction \in DOMAIN old_transaction_store
     /\ old_transaction_store[transaction.record.transaction].client
           # transaction.record.client)
    => (result # Ok /\ StoresUnchanged)

\* Another client tried to charge back a Disputed record whose owner holds
\* funds: only the client check stands in the way.
C7_Witness ==
    /\ Kind = "Chargeback"
    /\ transaction.record.transaction \in DOMAIN old_transaction_store
    /\ LET data == old_transaction_store[transaction.record.transaction] IN
          /\ data.client # transaction.record.client
          /\ data.state = Disputed
          /\ data.client \in DOMAIN old_account_store
          /\ old_account_store[data.client].held > 0
    /\ result = ErrUndisputeClient

\* C8: a Deposit whose transaction id is already recorded, for the same or
\* another client, is rejected; the original record and every account are
\* unchanged.
C8_DuplicateDepositRejected ==
    (/\ Kind = "Deposit"
     /\ transaction.record.transaction \in DOMAIN old_transaction_store)
    => (result = ErrPresent /\ StoresUnchanged)

\* A deposit of another client and another amount reused a recorded id.
C8_Witness ==
    /\ Kind = "Deposit"
    /\ transaction.record.transaction \in DOMAIN old_transaction_store
    /\ LET data == old_transaction_store[transaction.record.transaction] IN
          /\ data.client # transaction.record.client
          /\ data.amount # transaction.record.amount
          /\ data.state = Disputed
    /\ transaction.record.amount > 0
    /\ result = ErrPresent

\* C9: a Withdrawal whose amount exceeds the client's available funds is
\* rejected and mutates nothing.
C9_OverdrawRejected ==
    (/\ Kind = "Withdrawal"
     /\ transaction.record.client \in DOMAIN old_account_store
     /\ transaction.record.amount
           > old_account_store[transaction.record.client].available)
    => (result # Ok /\ StoresUnchanged)

\* The withdrawal would have been covered by available + held.
C9_Witness ==
    /\ Kind = "Withdrawal"
    /\ transaction.record.client \in DOMAIN old_account_store
    /\ LET data == old_account_store[transaction.record.client] IN
          /\ ~data.locked
          /\ transaction.record.amount > data.available
          /\ transaction.record.amount <= data.available + data.held
    /\ result = ErrNegativeBalance

\* The account data after moving m from available to held.
C10_Moved(data, m) ==
    [available |-> data.available - m, held |-> data.held + m, locked |-> data.locked]

C10_Min(a, b) == IF a <= b THEN a ELSE b

\* C10: hold_amount with amount >= 0 on an existing account succeeds and
\* moves exactly min(available, amount) from available to held, locked
\* unchanged; a Dispute accepted by the record store does exactly that
\* with the recorded amount.
C10_HoldMovesMin ==
    /\ \A c \in DOMAIN account_store : \A amount \in 0..MaxAmount :
          LET r == hold_amount(account_store, c, amount)
              m == C10_Min(account_store[c].available, amount)
          IN /\ r.result = Ok
             /\ r.data_store = [account_store EXCEPT ![c] = C10_Moved(account_store[c], m)]
    /\ (/\ Kind = "Dispute"
        /\ transaction.record.transaction \in DOMAIN old_transaction_store)
       => LET data == old_transaction_store[transaction.record.transaction]
              c == data.client
          IN (/\ data.client = transaction.record.client
              /\ data.state = NotDisputed
              /\ data.amount >= 0
              /\ c \in DOMAIN old_account_store)
             => /\ result = Ok
                /\ account_store = [old_account_store EXCEPT ![c] =
                       C10_Moved(old_account_store[c],
                                 C10_Min(old_account_store[c].available, data.amount))]
                /\ old_account_store[c].available >= data.amount =>
                      /\ account_store[c].held = old_account_store[c].held + data.amount
                      /\ account_store[c].available
                            = old_account_store[c].available - data.amount

\* An accepted Dispute held only part of the recorded amount.
C10_Witness ==
    /\ Kind = "Dispute"
    /\ result = Ok
    /\ LET data == old_transaction_store[transaction.record.transaction]
           c == transaction.record.client
       IN /\ old_account_store[c].available > 0
          /\ old_account_store[c].available < data.amount
          /\ account_store[c].available = 0
          /\ account_store[c].held
                = old_account_store[c].held + old_account_store[c].available

\* The record the last input names, as it was before the input.
OldRecord == old_transaction_store[transaction.record.transaction]

\* The last input names a record whose client is the input's client.
NamesOwnRecord ==
    /\ transaction.record.transaction \in DOMAIN old_transaction_store
    /\ OldRecord.client = transaction.record.client

\* The account data after moving m from held back to available.
C11_Released(data, m) ==
    [available |-> data.available + m, held |-> data.held - m, locked |-> data.locked]

\* C11: release_held_amount with amount >= 0 on an existing account
\* succeeds and moves exactly min(held, amount) from held back to
\* available, locked unchanged; a Resolve accepted by the record store does
\* exactly that with the recorded amount.
C11_ReleaseMovesMin ==
    /\ \A c \in DOMAIN account_store : \A amount \in 0..MaxAmount :
          LET r == release_held_amount(account_store, c, amount)
              m == C10_Min(account_store[c].held, amount)
          IN /\ r.result = Ok
             /\ r.data_store = [account_store EXCEPT ![c] = C11_Released(account_store[c], m)]
    /\ (/\ Kind = "Resolve"
        /\ NamesOwnRecord
        /\ OldRecord.state = Disputed
        /\ OldRecord.amount >= 0
        /\ OldRecord.client \in DOMAIN old_account_store)
       => LET c == OldRecord.client IN
          /\ result = Ok
          /\ account_store = [old_account_store EXCEPT ![c] =
                 C11_Released(old_account_store[c],
                              C10_Min(old_account_store[c].held, OldRecord.amount))]

\* An accepted Resolve released less than the recorded amount, because less
\* was held.
C11_Witness ==
    /\ Kind = "Resolve"
    /\ result = Ok
    /\ LET c == transaction.record.client IN
          /\ old_account_store[c].held > 0
          /\ old_account_store[c].held < OldRecord.amount
          /\ account_store[c].held = 0
          /\ account_store[c].available
                = old_account_store[c].available + old_account_store[c].held

\* The account data after destroying m of the held funds and locking.
C12_Charged(data, m) ==
    [available |-> data.available, held |-> data.held - m, locked |-> TRUE]

\* C12: charge_back_amount with amount >= 0 on an existing account removes
\* exactly min(held, amount) from held, leaves available unchanged and sets
\* locked, also when held is 0 or less than amount; a Chargeback accepted
\* by the record store does exactly that with the recorded amount.
C12_ChargeBackRemovesMinAndLocks ==
    /\ \A c \in DOMAIN account_store : \A amount \in 0..MaxAmount :
          LET r == charge_back_amount(account_store, c, amount)
              m == C10_Min(account_store[c].held, amount)
          IN /\ r.result = Ok
             /\ r.data_store = [account_store EXCEPT ![c] = C12_Charged(account_store[c], m)]
    /\ (/\ Kind = "Chargeback"
        /\ NamesOwnRecord
        /\ OldRecord.state = Disputed
        /\ OldRecord.amount >= 0
        /\ OldRecord.client \in DOMAIN old_account_store)
       => LET c == OldRecord.client IN
          /\ result = Ok
          /\ account_store = [old_account_store EXCEPT ![c] =
                 C12_Charged(old_account_store[c],
                             C10_Min(old_account_store[c].held, OldRecord.amount))]

\* An accepted Chargeback found less held than the recorded amount and
\* locked the account all the same.
C12_Witness ==
    /\ Kind = "Chargeback"
    /\ result = Ok
    /\ LET c == transaction.record.client IN
          /\ old_account_store[c].held < OldRecord.amount
          /\ old_account_store[c].available > 0
          /\ ~old_account_store[c].locked
          /\ account_store[c].locked
          /\ account_store[c].held = 0
          /\ account_store[c].available = old_account_store[c].available

\* C13 (as stated): a Dispute, Resolve or Chargeback that names a
\* transaction id used by a Withdrawal, or an id under which no deposit was
\* ever recorded, is rejected and changes neither store.
C13_WithdrawalIdRejected ==
    (/\ IsDisputeKind
     /\ \/ transaction.record.transaction \in withdrawal_ids
        \/ transaction.record.transaction \notin DOMAIN old_transaction_store)
    => (result # Ok /\ StoresUnchanged)

\* C13 (amended): a Dispute, Resolve or Chargeback that names an id under
\* which no deposit is recorded is rejected as not found and changes
\* neither store; a Withdrawal records nothing, so an id used only by
\* withdrawals is such an id.  (An id used by a Withdrawal and by an
\* accepted Deposit names the deposit.)
C13_UnrecordedIdRejected ==
    /\ (/\ IsDisputeKind
        /\ transaction.record.transaction \notin DOMAIN old_transaction_store)
       => /\ result \in {ErrDisputeNotFound, ErrUndisputeNotFound}
          /\ StoresUnchanged
    /\ Kind = "Withdrawal" => transaction_store = old_transaction_store
    /\ \A tx \in DOMAIN transaction_store \ DOMAIN old_transaction_store :
          Kind = "Deposit" /\ transaction.record.transaction = tx

\* The client disputed the id of its own earlier Withdrawal while it has
\* funds and a recorded deposit under another id.
C13_Witness ==
    /\ Kind = "Dispute"
    /\ transaction.record.transaction \in withdrawal_ids
    /\ transaction.record.transaction \notin DOMAIN old_transaction_store
    /\ \E tx \in DOMAIN old_transaction_store :
          /\ old_transaction_store[tx].client = transaction.record.client
          /\ old_transaction_store[tx].state = NotDisputed
    /\ transaction.record.client \in DOMAIN old_account_store
    /\ old_account_store[transaction.record.client].available > 0
    /\ result = ErrDisputeNotFound

\* C14: a Dispute of a record that is not NotDisputed, and a Resolve or
\* Chargeback of a record that is not Disputed, is rejected; the record's
\* state and every account are unchanged.
C14_WrongStateRejected ==
    /\ (/\ Kind = "Dispute"
        /\ transaction.record.transaction \in DOMAIN old_transaction_store
        /\ OldRecord.state # NotDisputed)
       => (result # Ok /\ StoresUnchanged)
    /\ (/\ Kind \in {"Resolve", "Chargeback"}
        /\ transaction.record.transaction \in DOMAIN old_transaction_store
        /\ OldRecord.state # Disputed)
       => (result # Ok /\ StoresUnchanged)

\* The owner disputed a record a second time while it was Disputed and the
\* account still had available funds to hold.
C14_Witness ==
    /\ Kind = "Dispute"
    /\ NamesOwnRecord
    /\ OldRecord.state = Disputed
    /\ OldRecord.amount > 0
    /\ old_account_store[transaction.record.client].available > 0
    /\ old_account_store[transaction.record.client].held > 0
    /\ result = ErrAlreadyDisputed

C16_AccountsOnlyByDeposits ==
    \A c \in DOMAIN account_store \ DOMAIN old_account_store :
        /\ Kind = "Deposit"
        /\ result = Ok
        /\ transaction.record.client = c

\* C17: an account is locked exactly when a record of its client is
\* ChargedBack.
C17_LockedIffChargedBack ==
    \A c \in ClientId :
        (c \in DOMAIN account_store /\ account_store[c].locked)
        <=> (\E tx \in DOMAIN transaction_store :
                /\ transaction_store[tx].client = c
                /\ transaction_store[tx].state = ChargebackOcurred)

\* The stores as a pair, for a handler applied to a handler's outcome.
StoresOf(out) ==
    [account_store |-> out.account_store, transaction_store |-> out.transaction_store]

\* C18: after an accepted Resolve the record is NotDisputed and a Dispute
\* of the same id by the owning client is accepted again, after which a
\* Resolve is accepted again and leaves the record NotDisputed, so the
\* cycle repeats; and at any later time a NotDisputed record of a
\* non-negative amount can be disputed by its owner.
C18_DisputableAgain ==
    /\ (Kind = "Resolve" /\ result = Ok) =>
          LET tx == transaction.record.transaction
              d == handle_dispute(Self, transaction.record)
              r == handle_resolve(StoresOf(d), transaction.record)
          IN /\ transaction_store[tx].state = NotDisputed
             /\ d.result = Ok
             /\ d.transaction_store[tx].state = Disputed
             /\ r.result = Ok
             /\ r.transaction_store[tx].state = NotDisputed
    /\ \A tx \in DOMAIN transaction_store :
          (transaction_store[tx].state = NotDisputed /\ transaction_store[tx].amount >= 0) =>
              LET d == handle_dispute(Self, [client |-> transaction_store[tx].client,
                                             transaction |-> tx])
              IN d.result = Ok /\ d.transaction_store[tx].state = Disputed

\* An accepted Resolve gave the whole recorded amount back to available,
\* where the next Dispute of the same id finds it to hold again.
C18_Witness ==
    /\ Kind = "Resolve"
    /\ result = Ok
    /\ OldRecord.amount > 0
    /\ old_account_store[transaction.record.client].held = OldRecord.amount
    /\ account_store[transaction.record.client].held = 0
    /\ account_store[transaction.record.client].available >= OldRecord.amount
    /\ handle_dispute(Self, transaction.record).account_store[transaction.record.client].held
          = OldRecord.amount

\* C19 (pure part): add_to_balance for a client with no account creates
\* the account with available = amount, held = 0, locked = false when
\* amount >= 0 and otherwise fails without creating an account.
C19_AddToBalanceCreates ==
    \A c \in ClientId \ DOMAIN account_store : \A amount \in Amount :
        LET r == add_to_balance(account_store, c, amount) IN
        IF amount >= 0
        THEN /\ r.result = Ok
             /\ r.data_store
                   = (c :> [available |-> amount, held |-> 0, locked |-> FALSE]) @@ account_store
        ELSE /\ r.result # Ok
             /\ r.data_store = account_store

\* C19: add_to_balance creates the account as above, so the first accepted
\* Deposit of a client (no deposit of the client is recorded before it)
\* yields available = amount, held = 0, locked = false.
C19_FirstDepositYieldsAmount ==
    /\ C19_AddToBalanceCreates
    /\ (/\ Kind = "Deposit"
        /\ result = Ok
        /\ \A tx \in DOMAIN old_transaction_store :
              old_transaction_store[tx].client # transaction.record.client)
       => account_store[transaction.record.client]
             = [available |-> transaction.record.amount, held |-> 0, locked |-> FALSE]

\* C20: hold_amount, release_held_amount and charge_back_amount fail when
\* the client has no account or the amount is negative, and leave the
\* Account Store unchanged.
C20_NoAccountOrNegativeFails ==
    /\ \A c \in ClientId : \A amount \in Amount :
          (c \notin DOMAIN account_store \/ amount < 0) =>
              LET h == hold_amount(account_store, c, amount)
                  r == release_held_amount(account_store, c, amount)
                  b == charge_back_amount(account_store, c, amount)
              IN /\ h.result # Ok /\ h.data_store = account_store
                 /\ r.result # Ok /\ r.data_store = account_store
                 /\ b.result # Ok /\ b.data_store = account_store
    /\ result \in {ErrHoldNegative, ErrReleaseNegative, ErrChargeNegative, ErrNoClient}
          => account_store = old_account_store

\* A Resolve reached release_held_amount with the negative amount of a
\* recorded deposit while the client has held funds.
C20_Witness ==
    /\ Kind = "Resolve"
    /\ result = ErrReleaseNegative
    /\ OldRecord.amount < 0
    /\ transaction.record.client \in DOMAIN account_store
    /\ account_store[transaction.record.client].held > 0
    /\ \E c \in ClientId : c \notin DOMAIN account_store

\* C21: add_to_balance fails with "locked" for a locked account, whatever
\* the amount, and leaves the Account Store as it was; so a Deposit or a
\* Withdrawal for a locked account is rejected (by the Account Store
\* whenever the call reaches it, that is unless the Deposit's id is
\* already recorded) and the account's available, held and locked are
\* unchanged.
C21_LockedRejectsBalanceChange ==
    /\ \A c \in DOMAIN account_store : \A amount \in Amount :
          account_store[c].locked =>
              LET r == add_to_balance(account_store, c, amount)
              IN r.result = ErrLocked /\ r.data_store = account_store
    /\ (/\ Kind \in {"Deposit", "Withdrawal"}
        /\ transaction.record.client \in DOMAIN old_account_store
        /\ old_account_store[transaction.record.client].locked)
       => /\ result # Ok
          /\ account_store = old_account_store
          /\ (Kind = "Withdrawal"
               \/ transaction.record.transaction \notin DOMAIN old_transaction_store)
              => result = ErrLocked

\* A Withdrawal that the available funds of the account cover was rejected
\* because the account is locked.
C21_Witness ==
    /\ Kind = "Withdrawal"
    /\ result = ErrLocked
    /\ transaction.record.amount > 0
    /\ account_store[transaction.record.client].available >= transaction.record.amount
    /\ account_store[transaction.record.client].locked

\* The held funds of a client in an Account Store (none without an account).
HeldOf(data_store, c) == IF c \in DOMAIN data_store THEN data_store[c].held ELSE ZERO

\* C22: a Deposit or a Withdrawal, accepted or rejected, changes no
\* account's held; held increases only in a step that processes an
\* accepted Dispute and decreases only in a step that processes an
\* accepted Resolve or Chargeback.
C22_HeldOnlyByDisputeSteps ==
    \A c \in ClientId :
        LET before == HeldOf(old_account_store, c)
            after == HeldOf(account_store, c)
        IN /\ Kind \in {"Deposit", "Withdrawal"} => after = before
           /\ after > before => (Kind = "Dispute" /\ result = Ok)
           /\ after < before => (Kind \in {"Resolve", "Chargeback"} /\ result = Ok)

\* An accepted Withdrawal took available funds of an account that has held
\* funds, and the held funds stayed.
C22_Witness ==
    /\ Kind = "Withdrawal"
    /\ result = Ok
    /\ transaction.record.amount > 0
    /\ old_account_store[transaction.record.client].held > 0
    /\ account_store[transaction.record.client].held
          = old_account_store[transaction.record.client].held
    /\ account_store[transaction.record.client].available
          < old_account_store[transaction.record.client].available

\* C23: a Withdrawal, accepted or rejected, leaves the Transaction Record
\* Store as it was (the recorded ids and every record's client, amount and
\* dispute state), and its own id is not reserved: add_transaction accepts
\* a deposit under an id that only Withdrawals have used so far.
C23_WithdrawalLeavesRecordStore ==
    /\ Kind = "Withdrawal" => transaction_store = old_transaction_store
    /\ \A record \in MonetaryTransactionRecord :
          (/\ record.transaction \in withdrawal_ids
           /\ record.transaction \notin DOMAIN transaction_store)
          => LET r == handle_deposit(Self, record)
             IN /\ r.result # ErrPresent
                /\ record.transaction \in DOMAIN r.transaction_store
                /\ r.transaction_store[record.transaction].client = record.client
                /\ r.transaction_store[record.transaction].amount = record.amount

\* A Deposit was accepted under the id that an earlier Withdrawal carried.
C23_Witness ==
    /\ Kind = "Deposit"
    /\ result = Ok
    /\ transaction.record.transaction \in withdrawal_ids
    /\ transaction.record.transaction \notin DOMAIN old_transaction_store
    /\ transaction.record.transaction \in DOMAIN transaction_store

\* The items of the given sequence handled so far.
Handled == SubSeq(transactions, 1, processed)

IsParsed(item) == item.kind # "ParseFailure"

\* C24: an Err item (a parse failure) changes neither store, and the
\* stores after a run are the stores after the same run with every
\* parse-failure item removed.
C24_ParseFailureSkipped ==
    /\ Kind = "ParseFailure" => (StoresUnchanged /\ result = ErrParse)
    /\ Self = handle_transactions(new, SelectSeq(Handled, IsParsed))

\* A run was handled to its end in which a parse failure stands between
\* an accepted Deposit and the accepted Dispute of that deposit.
C24_Witness ==
    /\ processed = 3
    /\ Len(transactions) = 3
    /\ transactions[1].kind = "Deposit"
    /\ transactions[2].kind = "ParseFailure"
    /\ Kind = "Dispute"
    /\ result = Ok
    /\ account_store[transaction.record.client].held > 0

\* C25: every id recorded before an input is recorded after it with the
\* same client and amount, and an id that an input adds carries the client
\* and amount of that Deposit; so a record, once made, stays in every
\* later state with the client and amount of the deposit that created it,
\* and only its dispute state can change.
C25_RecordsKept ==
    /\ \A tx \in DOMAIN old_transaction_store :
          /\ tx \in DOMAIN transaction_store
          /\ transaction_store[tx].client = old_transaction_store[tx].client
          /\ transaction_store[tx].amount = old_transaction_store[tx].amount
    /\ \A tx \in DOMAIN transaction_store \ DOMAIN old_transaction_store :
          /\ Kind = "Deposit"
          /\ transaction.record.transaction = tx
          /\ transaction_store[tx].client = transaction.record.client
          /\ transaction_store[tx].amount = transaction.record.amount
          /\ transaction_store[tx].state = NotDisputed

\* An accepted Chargeback changed the dispute state of a record for good,
\* and the record is still there with its client and amount, next to
\* another record.
C25_Witness ==
    /\ Kind = "Chargeback"
    /\ result = Ok
    /\ transaction_store[transaction.record.transaction].state = ChargebackOcurred
    /\ OldRecord.state = Disputed
    /\ transaction_store[transaction.record.transaction].amount = OldRecord.amount
    /\ transaction_store[transaction.record.transaction].client = OldRecord.client
    /\ Cardinality(DOMAIN transaction_store) = 2

\* The items of a sequence that carry the client c, in their order.
OfClient(items, c) ==
    SelectSeq(items, LAMBDA item : IsParsed(item) /\ item.record.client = c)

\* The account of client c is the same in both Account Stores (or absent
\* from both).
SameAccount(a, b, c) ==
    IF c \in DOMAIN a
    THEN c \in DOMAIN b /\ a[c] = b[c]
    ELSE c \notin DOMAIN b

\* The account of every client is what handling the client's own items
\* alone, in their order, leaves.
C26_Independent ==
    \A c \in ClientId :
        SameAccount(account_store,
                    handle_transactions(new, OfClient(Handled, c)).account_store, c)

\* C26 (as stated): for every input sequence and every client c, the final
\* account of c equals the final account of c after handling only the
\* inputs whose client is c, in the same relative order.
C26_IndependentPerClient ==
    processed = Len(transactions) => C26_Independent

\* No transaction id is carried by Deposits of two different clients.
C26_DepositIdsOfOneClient ==
    \A i, j \in 1..processed :
        (/\ transactions[i].kind = "Deposit"
         /\ transactions[j].kind = "Deposit"
         /\ transactions[i].record.transaction = transactions[j].record.transaction)
        => transactions[i].record.client = transactions[j].record.client

\* C26 (amended): for every input sequence in which no transaction id is
\* carried by Deposits of two different clients, the account of every
\* client c equals the account of c after handling only the inputs whose
\* client is c, in the same relative order.
C26_IndependentWithOwnIds ==
    C26_DepositIdsOfOneClient => C26_Independent

\* A run of three items was handled in which a Deposit of another client
\* stands between a client's Deposit and the accepted Dispute of it, and
\* the two deposits carry different ids.
C26_Witness ==
    /\ processed = 3
    /\ Len(transactions) = 3
    /\ C26_DepositIdsOfOneClient
    /\ transactions[1].kind = "Deposit"
    /\ transactions[2].kind = "Deposit"
    /\ transactions[1].record.client # transactions[2].record.client
    /\ Kind = "Dispute"
    /\ result = Ok
    /\ transaction.record.client = transactions[1].record.client
    /\ account_store[transaction.record.client].held > 0
    /\ transactions[2].record.client \in DOMAIN account_store

\* The clients an input does not name (every client for a parse failure).
OtherClients ==
    IF Kind \in {"None", "ParseFailure"}
    THEN ClientId
    ELSE ClientId \ {transaction.record.client}

\* C27: an input with client c leaves the account (available, held,
\* locked, and whether it exists) of every other client as it was, and
\* the dispute state of every record owned by another client as it was.
C27_OtherClientsUntouched ==
    \A c \in OtherClients :
        /\ SameAccount(account_store, old_account_store, c)
        /\ \A tx \in DOMAIN old_transaction_store :
              old_transaction_store[tx].client = c
              => transaction_store[tx] = old_transaction_store[tx]

\* An accepted Chargeback locked the account of its client while another
\* client has held funds and a Disputed record, which stayed as they were.
C27_Witness ==
    /\ Kind = "Chargeback"
    /\ result = Ok
    /\ account_store[transaction.record.client].locked
    /\ \E c \in DOMAIN account_store \ {transaction.record.client} :
          /\ account_store[c].held > 0
          /\ ~account_store[c].locked
          /\ \E tx \in DOMAIN transaction_store :
                /\ transaction_store[tx].client = c
                /\ transaction_store[tx].state = Disputed

\* The ids of the records of client c that are Disputed.
DisputedOf(c) ==
    {tx \in DOMAIN transaction_store :
        transaction_store[tx].client = c /\ transaction_store[tx].state = Disputed}

\* The sum of the recorded amounts of a set of ids.
RECURSIVE SumOfAmounts(_)
SumOfAmounts(ids) ==
    IF ids = {}
    THEN ZERO
    ELSE LET tx == CHOOSE t \in ids : TRUE
         IN transaction_store[tx].amount + SumOfAmounts(ids \ {tx})

\* C28: in every reachable state the held funds of every client are at
\* most the sum of the recorded amounts of the client's Disputed records,
\* and are 0 when none of the client's records is Disputed.
C28_HeldCoveredByDisputed ==
    \A c \in ClientId :
        /\ HeldOf(account_store, c) <= SumOfAmounts(DisputedOf(c))
        /\ DisputedOf(c) = {} => HeldOf(account_store, c) = ZERO

\* The account of client c is there and locked.
IsLocked(data_store, c) == c \in DOMAIN data_store /\ data_store[c].locked

\* C29: an account that is locked before an input is locked after it, so
\* a locked account is locked in every later state; and no operation of
\* the Account Store, whatever its arguments, leaves a locked account
\* unlocked (the Transaction Record Store holds no accounts).
C29_LockedMonotone ==
    /\ \A c \in ClientId : IsLocked(old_account_store, c) => IsLocked(account_store, c)
    /\ \A c \in ClientId : IsLocked(account_store, c) =>
          \A client \in ClientId : \A amount \in Amount :
              /\ IsLocked(add_to_balance(account_store, client, amount).data_store, c)
              /\ IsLocked(hold_amount(account_store, client, amount).data_store, c)
              /\ IsLocked(release_held_amount(account_store, client, amount).data_store, c)
              /\ IsLocked(charge_back_amount(account_store, client, amount).data_store, c)

\* An accepted Dispute held funds of an account that was locked before it,
\* and the account is still locked.
C29_Witness ==
    /\ Kind = "Dispute"
    /\ result = Ok
    /\ IsLocked(old_account_store, transaction.record.client)
    /\ account_store[transaction.record.client].held
          > old_account_store[transaction.record.client].held
    /\ account_store[transaction.record.client].locked

\* Account::total of a client in an Account Store (0 without an account).
TotalOf(data_store, c) ==
    IF c \in DOMAIN data_store
    THEN data_store[c].available + data_store[c].held
    ELSE ZERO

\* By how much the last input changed the total of client c.
TotalChange(c) == TotalOf(account_store, c) - TotalOf(old_account_store, c)

\* C30: a Dispute or a Resolve, accepted or rejected, leaves the total
\* (available + held) of every account as it was; a total changes only by
\* an accepted Deposit (by +amount), an accepted Withdrawal (by -amount)
\* or an accepted Chargeback (by -min(held, amount)), of the account's
\* client.
C30_TotalConserved ==
    \A c \in ClientId :
        /\ Kind \in {"Dispute", "Resolve"} => TotalChange(c) = 0
        /\ TotalChange(c) # 0 =>
              /\ result = Ok
              /\ Kind \in {"Deposit", "Withdrawal", "Chargeback"}
              /\ transaction.record.client = c
        /\ (result = Ok /\ Kind = "Deposit" /\ transaction.record.client = c)
              => TotalChange(c) = transaction.record.amount
        /\ (result = Ok /\ Kind = "Withdrawal" /\ transaction.record.client = c)
              => TotalChange(c) = 0 - transaction.record.amount
        /\ (result = Ok /\ Kind = "Chargeback" /\ transaction.record.client = c)
              => TotalChange(c) = 0 - min(HeldOf(old_account_store, c), OldRecord.amount)

\* An accepted Resolve moved held funds back to the available funds of an
\* account, and the total of the account is what it was.
C30_Witness ==
    /\ Kind = "Resolve"
    /\ result = Ok
    /\ account_store[transaction.record.client].held
          < old_account_store[transaction.record.client].held
    /\ account_store[transaction.record.client].available
          > old_account_store[transaction.record.client].available
    /\ TotalOf(account_store, transaction.record.client)
          = TotalOf(old_account_store, transaction.record.client)

====
